---- MODULE Spec2Model ----
(***************************************************************************)
(* Model of src/tools/others.js of the Gemini Discord bot:                 *)
(*   retryOperation            bounded retry with a fixed delay            *)
(*   manageToolCall            name -> handler dispatch (with the two      *)
(*                             handlers getYoutubeTranscript, calculate)   *)
(*   processFunctionCallsNames summary string of a batch of tool calls     *)
(* JavaScript is single threaded: an action below is the code that runs    *)
(* between two suspension points (await) of one activation.                *)
(***************************************************************************)
EXTENDS Integers, Sequences, FiniteSets, TLC

VARIABLES
    \* ---- retryOperation, one entry per activation ----
    rpc,          \* position: "idle", "awaitFn", "awaitDelay", "returned", "thrown"
    maxRetries,   \* parameter maxRetries
    delayMs,      \* parameter delayMs after its default has been applied
    attempt,      \* loop variable attempt (line 21)
    error,        \* local variable error (line 20)
    settled,      \* the value returned or the error thrown
    trace,        \* calls of fn, their outcomes and calls of delay, in order
    \* ---- manageToolCall ----
    dpc,          \* position: "idle", "awaitFetch", "returned", "thrown"
    toolCall,     \* the argument of the activation
    invoked,      \* calls made through the lookup result: <<[func, args, name]>>
    produced,     \* the value the called function handed back, if any
    dresult,      \* the value returned or the error thrown
    \* ---- processFunctionCallsNames ----
    fpc,          \* "ready" before the first call, "done" after one
    functionCalls,\* the argument
    perCall,      \* the result of the outer .map (lines 227-261)
    summary       \* the returned string

retryVars == <<rpc, maxRetries, delayMs, attempt, error, settled, trace>>
dispatchVars == <<dpc, toolCall, invoked, produced, dresult>>
formatVars == <<fpc, functionCalls, perCall, summary>>
vars == <<retryVars, dispatchVars, formatVars>>

----------------------------------------------------------------------------
(* Bounds of the model *)

MaxRetriesBound == 2     \* maxRetries ranges over 0..MaxRetriesBound
NumInvocations == 2      \* activations of retryOperation in flight together
MaxCalls == 2            \* longest functionCalls sequence

(* Program constants *)
DefaultDelayMs == 1000   \* default of the parameter delayMs
TruncateAt == 500        \* longest rendered argument value left alone

Invocations == 1..NumInvocations

\* The JavaScript value undefined.
Undefined == [type |-> "undefined"]

----------------------------------------------------------------------------
(* retryOperation *)

\* Messages of the errors fn may reject with, and values it may resolve to.
Messages == {"timeout", "reset"}
Values == {[type |-> "string", val |-> "v"]}
\* What the caller passes for delayMs (a number, or nothing).
Num(n) == [type |-> "number", val |-> n]
DelayArgs == {Undefined, Num(0), Num(250)}

\* An Error object, reduced to what the code reads of it.
Err(msg) == [type |-> "error", name |-> "Error", message |-> msg]

\* delayMs = 1000 in the parameter list.
DefaultDelay(d) == IF d = Undefined THEN DefaultDelayMs ELSE d.val

\* Off by one: attempt < maxRetries as the loop condition.
LoopConditionStrict(a, m) == a < m

\* attempt <= maxRetries, the condition of the for loop.
LoopCondition(a, m) == a <= m

\* Inverted comparison: the catch block never waits while attempts remain.
ShouldWaitInverted(a, m) == a > m

\* attempt < maxRetries, the condition under which the catch block waits.
ShouldWait(a, m) == a < m

\* error = err
RecordError(err, i, e) == [err EXCEPT ![i] = e]

\* One counter for all activations (attempt declared outside the function).
IncrementShared(att, i) == [j \in DOMAIN att |-> att[i] + 1]

\* attempt++
Increment(att, i) == [att EXCEPT ![i] = @ + 1]

\* throw new Error(`Operation failed after ${maxRetries} attempts: ${error.message}`)
\* The template's two substitutions are kept apart. Reading .message of
\* undefined (the loop body never ran) is a TypeError instead.
ExhaustedError(m, e) ==
    IF e = Undefined
    THEN [type |-> "error", name |-> "TypeError", message |-> "error is undefined"]
    ELSE [type |-> "error", name |-> "Error", attempts |-> m, message |-> e.message]

\* The call of fn at the top of one loop iteration.
CallFn(i) ==
    /\ trace' = [trace EXCEPT ![i] = Append(@, [ev |-> "fn"])]
    /\ rpc' = [rpc EXCEPT ![i] = "awaitFn"]

\* The loop test with the counter att and the last error err: run the body
\* (call fn), or leave the loop and throw.
LoopTest(i, att, err, m) ==
    IF LoopCondition(att[i], m)
    THEN /\ CallFn(i)
         /\ settled' = settled
    ELSE /\ rpc' = [rpc EXCEPT ![i] = "thrown"]
         /\ settled' = [settled EXCEPT ![i] = ExhaustedError(m, err[i])]
         /\ trace' = trace

\* retryOperation(fn, m, d) is called: let error; attempt = 0; first loop test.
Start(i, m, d) ==
    /\ rpc[i] = "idle"
    /\ maxRetries' = [maxRetries EXCEPT ![i] = m]
    /\ delayMs' = [delayMs EXCEPT ![i] = DefaultDelay(d)]
    /\ attempt' = [attempt EXCEPT ![i] = 0]
    /\ error' = error
    /\ LoopTest(i, attempt', error', m)

\* await fn() resolves with v: return it.
FnResolves(i, v) ==
    /\ rpc[i] = "awaitFn"
    /\ trace' = [trace EXCEPT ![i] = Append(@, [ev |-> "resolved", val |-> v])]
    /\ rpc' = [rpc EXCEPT ![i] = "returned"]
    /\ settled' = [settled EXCEPT ![i] = v]
    /\ UNCHANGED <<maxRetries, delayMs, attempt, error>>

\* await fn() rejects with an Error whose message is msg: the catch block,
\* up to the await of delay or, on the last attempt, through the throw.
FnRejects(i, msg) ==
    /\ rpc[i] = "awaitFn"
    /\ error' = RecordError(error, i, Err(msg))
    /\ IF ShouldWait(attempt[i], maxRetries[i])
       THEN /\ trace' = [trace EXCEPT ![i] =
                            @ \o <<[ev |-> "rejected", message |-> msg],
                                   [ev |-> "delay", ms |-> delayMs[i]]>>]
            /\ rpc' = [rpc EXCEPT ![i] = "awaitDelay"]
            /\ UNCHANGED <<attempt, settled>>
       ELSE /\ attempt' = Increment(attempt, i)
            /\ IF LoopCondition(attempt'[i], maxRetries[i])
               THEN /\ trace' = [trace EXCEPT ![i] =
                                    @ \o <<[ev |-> "rejected", message |-> msg],
                                           [ev |-> "fn"]>>]
                    /\ rpc' = [rpc EXCEPT ![i] = "awaitFn"]
                    /\ settled' = settled
               ELSE /\ trace' = [trace EXCEPT ![i] =
                                    Append(@, [ev |-> "rejected", message |-> msg])]
                    /\ rpc' = [rpc EXCEPT ![i] = "thrown"]
                    /\ settled' = [settled EXCEPT ![i] =
                                      ExhaustedError(maxRetries[i], error'[i])]
    /\ UNCHANGED <<maxRetries, delayMs>>

\* await delay(delayMs) resolves: attempt++ and the next loop test.
DelayElapses(i) ==
    /\ rpc[i] = "awaitDelay"
    /\ attempt' = Increment(attempt, i)
    /\ LoopTest(i, attempt', error, maxRetries[i])
    /\ UNCHANGED <<maxRetries, delayMs, error>>

----------------------------------------------------------------------------
(* JavaScript values of manageToolCall *)

Null == [type |-> "null"]
Str(t) == [type |-> "string", val |-> t]
\* An object literal: its own enumerable properties, in insertion order.
Obj(entries) == [type |-> "object", entries |-> entries]
Prop(k, v) == [key |-> k, value |-> v]
\* A function, named by its declaration.
Fn(id) == [type |-> "function", id |-> id]
\* Object.prototype, the prototype of every object literal.
ObjectPrototype == [type |-> "object", id |-> "Object.prototype"]
\* An error object; `${error}` renders it as "name: message".
Error(n, msg) == [type |-> "error", name |-> n, message |-> msg]
ErrorToString(e) == e.name \o ": " \o e.message

\* obj.key for an object literal obj without inherited data properties.
Get(obj, key) ==
    IF \E j \in 1..Len(obj.entries) : obj.entries[j].key = key
    THEN obj.entries[CHOOSE j \in 1..Len(obj.entries) : obj.entries[j].key = key].value
    ELSE Undefined

\* Reading a property of undefined or null throws a TypeError.
HasProperties(v) == v.type \notin {"undefined", "null"}

\* if (v): every function and object is truthy, undefined is not.
Truthy(v) == v.type \notin {"undefined", "null"}

----------------------------------------------------------------------------
(* manageToolCall *)

\* A registry with both names bound to the same handler.
RegistryBothCalculate ==
    [get_youtube_transcript |-> Fn("calculate"), calculate |-> Fn("calculate")]

\* The own properties of the object literal of lines 179-192.
tool_calls_to_function ==
    [get_youtube_transcript |-> Fn("getYoutubeTranscript"), calculate |-> Fn("calculate")]

\* What an object literal inherits under the name n: the members of
\* Object.prototype, and the prototype itself under "__proto__".
Inherited(n) ==
    CASE n = "constructor" -> Fn("Object")
      [] n = "toString" -> Fn("Object.prototype.toString")
      [] n = "valueOf" -> Fn("Object.prototype.valueOf")
      [] n = "hasOwnProperty" -> Fn("Object.prototype.hasOwnProperty")
      [] n = "__proto__" -> ObjectPrototype
      [] OTHER -> Undefined

\* tool_calls_to_function[functionName]: an own property, else up the
\* prototype chain.
Lookup(n) ==
    IF n \in DOMAIN tool_calls_to_function
    THEN tool_calls_to_function[n]
    ELSE Inherited(n)

\* The one-element array every envelope is.
Envelope(name, response) ==
    [type |-> "array",
     items |-> <<[functionResponse |-> [name |-> name, response |-> response]]>>]

\* The else branch of manageToolCall.
NotFoundEnvelope(name) ==
    Envelope(name, [name |-> name, content |-> Str("No function found for " \o name)])

\* What YoutubeTranscript.fetchTranscript(url) may do.
FetchOutcomes ==
    {[kind |-> "resolves", val |-> [type |-> "array", id |-> "transcript"]],
     [kind |-> "rejects", err |-> Error("Error", "Transcript is disabled")],
     [kind |-> "rejects", err |-> Error("TypeError", "fetch failed")]}

\* What evaluate(equation) may do: a value, undefined (an empty expression)
\* or an exception.
EvaluateOutcomes ==
    {[kind |-> "returns", val |-> Str("4")],
     [kind |-> "returns", val |-> Str("3 + 2i")],
     [kind |-> "returns", val |-> Undefined],
     [kind |-> "throws", err |-> Error("SyntaxError", "Value expected")]}

\* getYoutubeTranscript after the await: the try block's return, or the catch.
TranscriptEnvelope(args, name, o) ==
    IF o.kind = "resolves"
    THEN Envelope(name, [url |-> Get(args, "url"), content |-> o.val])
    ELSE Envelope(name, [url |-> Get(args, "url"),
                         content |-> Str("Error fetching the transcript: "
                                         \o ErrorToString(o.err))])

\* calculate: evaluate(equation).toString() in the try block, and the catch.
CalculateEnvelope(args, name, o) ==
    LET failure ==
            IF o.kind = "throws" THEN o.err
            ELSE Error("TypeError", "Cannot read properties of undefined")
    IN IF o.kind = "returns" /\ HasProperties(o.val)
       THEN Envelope(name, [equation |-> Get(args, "equation"), content |-> o.val])
       ELSE Envelope(name, [equation |-> Get(args, "equation"),
                            content |-> Str("Error calculating the equation: "
                                            \o ErrorToString(failure))])

Returns(v) ==
    /\ dpc' = "returned"
    /\ produced' = v
    /\ dresult' = v

Throws(e) ==
    /\ dpc' = "thrown"
    /\ produced' = Undefined
    /\ dresult' = e

\* func(args, functionName) for the value func the lookup gave, up to the
\* first await inside it; o is what evaluate does if it is reached.
CallFunc(func, args, name, o) ==
    IF func.type # "function"
    THEN /\ invoked' = invoked
         /\ Throws(Error("TypeError", "func is not a function"))
    ELSE /\ invoked' = Append(invoked, [func |-> func, args |-> args, name |-> name])
         /\ CASE func.id = "getYoutubeTranscript" ->
                   IF HasProperties(args)
                   THEN /\ dpc' = "awaitFetch"
                        /\ UNCHANGED <<produced, dresult>>
                   ELSE Throws(Error("TypeError", "Cannot read properties of "
                                                   \o args.type))
              [] func.id = "calculate" ->
                   IF HasProperties(args)
                   THEN Returns(CalculateEnvelope(args, name, o))
                   ELSE Throws(Error("TypeError", "Cannot read properties of "
                                                   \o args.type))
              \* Object(value): a new empty object for undefined and null,
              \* the object itself otherwise.
              [] func.id = "Object" ->
                   Returns(IF HasProperties(args) THEN args ELSE Obj(<<>>))
              \* The call has no receiver: this is undefined.
              [] func.id = "Object.prototype.toString" ->
                   Returns(Str("[object Undefined]"))
              [] OTHER ->
                   Throws(Error("TypeError", "Cannot convert undefined or null to object"))

\* manageToolCall(tc), up to its return, its throw or the await inside
\* getYoutubeTranscript.
ManageToolCall(tc, o) ==
    /\ dpc = "idle"
    /\ toolCall' = tc
    /\ LET functionName == tc.name
           func == Lookup(functionName)
       IN IF Truthy(func)
          THEN CallFunc(func, tc.args, functionName, o)
          ELSE /\ invoked' = invoked
               /\ Returns(NotFoundEnvelope(functionName))

\* await YoutubeTranscript.fetchTranscript(url) settles; manageToolCall
\* returns what getYoutubeTranscript returns.
FetchSettles(o) ==
    /\ dpc = "awaitFetch"
    /\ Returns(TranscriptEnvelope(toolCall.args, toolCall.name, o))
    /\ UNCHANGED <<toolCall, invoked>>

\* The caller has taken the result; the next call starts afresh.
CallerContinues ==
    /\ dpc \in {"returned", "thrown"}
    /\ dpc' = "idle"
    /\ toolCall' = Undefined
    /\ invoked' = <<>>
    /\ produced' = Undefined
    /\ dresult' = Undefined

\* The tool calls tried: registered names, names nobody defined, and names
\* every object inherits; args present, empty, null or missing.
Names ==
    {"get_youtube_transcript", "calculate", "unknown_tool", "Calculate", "",
     "constructor", "toString", "valueOf", "hasOwnProperty", "__proto__"}
ArgsChoices ==
    {Undefined, Null, Obj(<<>>),
     Obj(<<Prop("url", Str("https://youtu.be/x"))>>),
     Obj(<<Prop("url", Str("not a url"))>>),
     Obj(<<Prop("equation", Str("12 / (2.3 + 0.7)"))>>),
     Obj(<<Prop("equation", Str("2 +"))>>),
     Obj(<<Prop("equation", Str("")), Prop("url", Str(""))>>)}
ToolCalls == [name : Names, args : ArgsChoices]

----------------------------------------------------------------------------
(* processFunctionCallsNames *)
(* A string is the sequence of its characters, so that split, slice and    *)
(* length are what they are in the code.                                   *)

Text(cs) == [type |-> "string", val |-> cs]

LowerCase == <<"a", "b", "c", "d", "e", "f", "g", "h", "i", "j", "k", "l", "m",
               "n", "o", "p", "q", "r", "s", "t", "u", "v", "w", "x", "y", "z">>
UpperCase == <<"A", "B", "C", "D", "E", "F", "G", "H", "I", "J", "K", "L", "M",
               "N", "O", "P", "Q", "R", "S", "T", "U", "V", "W", "X", "Y", "Z">>
Digits == <<"0", "1", "2", "3", "4", "5", "6", "7", "8", "9">>

\* c.toUpperCase() for one character.
ToUpperCase(c) ==
    IF \E j \in 1..Len(LowerCase) : LowerCase[j] = c
    THEN UpperCase[CHOOSE j \in 1..Len(LowerCase) : LowerCase[j] = c]
    ELSE c

\* isNaN(word) for a word of letters and digits: Number("") is 0 and a run
\* of digits is a number; a word with a letter in it is not (the names of
\* the model hold no "e", "x", "b" or "o" between digits).
IsNaN(word) == \E j \in 1..Len(word) : \A d \in 1..Len(Digits) : Digits[d] # word[j]

\* s.slice(from, to) for 0 <= from <= to.
Slice(s, from, to) ==
    SubSeq(s, from + 1, IF to < Len(s) THEN to ELSE Len(s))

\* s.split(sep) for a one-character separator.
RECURSIVE Split(_, _)
Split(s, sep) ==
    IF \E j \in 1..Len(s) : s[j] = sep
    THEN LET at == CHOOSE j \in 1..Len(s) :
                       s[j] = sep /\ \A h \in 1..(j - 1) : s[h] # sep
         IN <<SubSeq(s, 1, at - 1)>> \o Split(SubSeq(s, at + 1, Len(s)), sep)
    ELSE <<s>>

\* strs.join(sep)
RECURSIVE Join(_, _)
Join(strs, sep) ==
    IF strs = <<>> THEN <<>>
    ELSE IF Len(strs) = 1 THEN strs[1]
    ELSE strs[1] \o sep \o Join(Tail(strs), sep)

\* The callback of the inner .map over the words of the name.
Capitalize(word) ==
    IF IsNaN(word)
    THEN <<ToUpperCase(word[1])>> \o Slice(word, 1, Len(word))
    ELSE word

\* tc.name.split("_").map(...).join(" ")
FormatName(name) ==
    LET words == Split(name, "_")
    IN Join([j \in 1..Len(words) |-> Capitalize(words[j])], <<" ">>)

\* The decimal digits of a natural number.
RECURSIVE Decimal(_)
Decimal(n) == IF n < 10 THEN <<Digits[n + 1]>> ELSE Decimal(n \div 10) \o <<Digits[(n % 10) + 1]>>

\* String(value)
StringOf(v) ==
    CASE v.type = "string" -> v.val
      [] v.type = "number" -> Decimal(v.val)
      [] v.type = "undefined" -> <<"u", "n", "d", "e", "f", "i", "n", "e", "d">>
      [] v.type = "null" -> <<"n", "u", "l", "l">>

\* Truncation that also cuts a value of exactly the limit.
TruncateFromLimit(stringValue) ==
    IF Len(stringValue) >= TruncateAt
    THEN Slice(stringValue, 0, TruncateAt) \o <<".", ".", ".">>
    ELSE stringValue

\* stringValue.length > 500 ? stringValue.slice(0, 500) + "..." : stringValue
Truncate(stringValue) ==
    IF Len(stringValue) > TruncateAt
    THEN Slice(stringValue, 0, TruncateAt) \o <<".", ".", ".">>
    ELSE stringValue

\* `${key}: ${truncatedValue}`
FormatEntry(e) == e.key \o <<":", " ">> \o Truncate(StringOf(e.value))

\* tc.args ? Object.entries(tc.args).map(...).join(", ") : ""
FormatArgs(args) ==
    IF Truthy(args)
    THEN Join([j \in 1..Len(args.entries) |-> FormatEntry(args.entries[j])], <<",", " ">>)
    ELSE <<>>

\* !tc.name: undefined and the empty string are falsy.
NoName(tc) == tc.name.type = "undefined" \/ tc.name.val = <<>>

\* The callback of the outer .map.
FormatCall(tc) ==
    IF NoName(tc) THEN <<>>
    ELSE LET formattedName == FormatName(tc.name.val)
             formattedArgs == FormatArgs(tc.args)
         IN IF formattedArgs # <<>>
            THEN formattedName \o <<" ", "(">> \o formattedArgs \o <<")">>
            ELSE formattedName

\* No filter at all: every mapped string goes into the join.
KeepAll(strs) == strs

\* .filter((name) => name): the empty string is falsy.
FilterNonEmpty(strs) == SelectSeq(strs, LAMBDA t : t # <<>>)

\* processFunctionCallsNames(functionCalls): map, filter, join.
ProcessFunctionCallsNames ==
    /\ fpc = "ready"
    /\ perCall' = [j \in 1..Len(functionCalls) |-> FormatCall(functionCalls[j])]
    /\ summary' = Join(FilterNonEmpty(perCall'), <<",", " ">>)
    /\ fpc' = "done"
    /\ UNCHANGED functionCalls

\* An argument value of n characters, the digit at each place a function of
\* the place.
LongValue(n) == Text([j \in 1..n |-> Digits[(j % 10) + 1]])
ValueLengths == {TruncateAt - 1, TruncateAt, TruncateAt + 1, TruncateAt + 100}

\* The calls tried: without a name, with an empty name, without args, with
\* empty args, with short and with long values.
CallChoices ==
    {[name |-> Undefined, args |-> Obj(<<Prop(<<"u", "r", "l">>, Text(<<"h", "t", "t", "p", ":", "/", "/", "x">>))>>)],
     [name |-> Text(<<>>), args |-> Undefined],
     [name |-> Text(<<"g", "e", "t", "_", "y", "o", "u", "t", "u", "b", "e", "_", "t", "r", "a", "n", "s", "c", "r", "i", "p", "t">>),
      args |-> Obj(<<Prop(<<"u", "r", "l">>, Text(<<"h", "t", "t", "p", ":", "/", "/", "x">>))>>)],
     [name |-> Text(<<"c", "a", "l", "c", "u", "l", "a", "t", "e">>), args |-> Undefined],
     [name |-> Text(<<"c", "a", "l", "c", "u", "l", "a", "t", "e">>), args |-> Null],
     [name |-> Text(<<"p", "i", "n", "g">>), args |-> Obj(<<>>)],
     [name |-> Text(<<"r", "u", "n", "_", "2", "_", "t", "a", "s", "k", "s">>),
      args |-> Obj(<<Prop(<<"n">>, Num(42)), Prop(<<"t", "a", "g">>, Undefined)>>)],
     [name |-> Text(<<"s", "a", "y">>), args |-> Obj(<<Prop(<<"t", "e", "x", "t">>, Text(<<>>))>>)]}
    \cup {[name |-> Text(<<"s", "a", "y">>),
           args |-> Obj(<<Prop(<<"t", "e", "x", "t">>, LongValue(n))>>)] : n \in ValueLengths}

RECURSIVE SeqsUpTo(_, _)
SeqsUpTo(S, n) ==
    IF n = 0 THEN {<<>>}
    ELSE LET shorter == SeqsUpTo(S, n - 1)
         IN shorter \cup {Append(q, x) : q \in shorter, x \in S}

InitRetry ==
    /\ rpc = [i \in Invocations |-> "idle"]
    /\ maxRetries = [i \in Invocations |-> 0]
    /\ delayMs = [i \in Invocations |-> DefaultDelayMs]
    /\ attempt = [i \in Invocations |-> 0]
    /\ error = [i \in Invocations |-> Undefined]
    /\ settled = [i \in Invocations |-> Undefined]
    /\ trace = [i \in Invocations |-> <<>>]

InitDispatch ==
    /\ dpc = "idle"
    /\ toolCall = Undefined
    /\ invoked = <<>>
    /\ produced = Undefined
    /\ dresult = Undefined

InitFormat ==
    /\ fpc = "ready"
    /\ functionCalls = <<>>
    /\ perCall = <<>>
    /\ summary = <<>>

Init == InitRetry /\ InitDispatch /\ InitFormat

\* One activation, every parameter value.
StartAloneStep ==
    /\ \E m \in 0..MaxRetriesBound, d \in DelayArgs : Start(1, m, d)
    /\ UNCHANGED <<dispatchVars, formatVars>>

\* Any of the activations, with no retry or with the most retries, and with
\* the default delay.
StartConcurrentStep ==
    /\ \E i \in Invocations, m \in {0, MaxRetriesBound} : Start(i, m, Undefined)
    /\ UNCHANGED <<dispatchVars, formatVars>>

FnResolvesStep ==
    /\ \E i \in Invocations, v \in Values : FnResolves(i, v)
    /\ UNCHANGED <<dispatchVars, formatVars>>

FnRejectsStep ==
    /\ \E i \in Invocations, msg \in Messages : FnRejects(i, msg)
    /\ UNCHANGED <<dispatchVars, formatVars>>

DelayElapsesStep ==
    /\ \E i \in Invocations : DelayElapses(i)
    /\ UNCHANGED <<dispatchVars, formatVars>>

ManageToolCallStep ==
    /\ \E tc \in ToolCalls, o \in EvaluateOutcomes : ManageToolCall(tc, o)
    /\ UNCHANGED <<retryVars, formatVars>>

FetchSettlesStep ==
    /\ \E o \in FetchOutcomes : FetchSettles(o)
    /\ UNCHANGED <<retryVars, formatVars>>

CallerContinuesStep ==
    /\ CallerContinues
    /\ UNCHANGED <<retryVars, formatVars>>

NextDispatch == ManageToolCallStep \/ FetchSettlesStep \/ CallerContinuesStep

SpecDispatch == Init /\ [][NextDispatch]_vars

\* The formatter is about to be called with any of the inputs tried.
InitFormatInputs ==
    /\ fpc = "ready"
    /\ functionCalls \in SeqsUpTo(CallChoices, MaxCalls)
    /\ perCall = <<>>
    /\ summary = <<>>

InitFormatter == InitRetry /\ InitDispatch /\ InitFormatInputs

ProcessFunctionCallsNamesStep ==
    /\ ProcessFunctionCallsNames
    /\ UNCHANGED <<retryVars, dispatchVars>>

NextFormat == ProcessFunctionCallsNamesStep

SpecFormat == InitFormatter /\ [][NextFormat]_vars

NextRetry == StartAloneStep \/ FnResolvesStep \/ FnRejectsStep \/ DelayElapsesStep

NextConcurrent ==
    StartConcurrentStep \/ FnResolvesStep \/ FnRejectsStep \/ DelayElapsesStep

SpecRetry == Init /\ [][NextRetry]_vars

SpecConcurrent == Init /\ [][NextConcurrent]_vars

----------------------------------------------------------------------------
(* Properties of retryOperation *)

Calls(tr) == SelectSeq(tr, LAMBDA e : e.ev = "fn")
Waits(tr) == SelectSeq(tr, LAMBDA e : e.ev = "delay")
Rejections(tr) == SelectSeq(tr, LAMBDA e : e.ev = "rejected")
Outcomes(tr) == SelectSeq(tr, LAMBDA e : e.ev \in {"rejected", "resolved"})

\* The first k attempts of tr: each a call of fn, its rejection, and one wait
\* of d milliseconds before the next call.
FailedRounds(tr, k, d) ==
    \A j \in 0..(k - 1) :
        /\ tr[3 * j + 1].ev = "fn"
        /\ tr[3 * j + 2].ev = "rejected"
        /\ tr[3 * j + 3] = [ev |-> "delay", ms |-> d]

C4_ReportsTotalAttempts ==
    \A i \in Invocations :
        rpc[i] = "thrown" =>
            /\ settled[i].name = "Error"
            /\ settled[i].attempts = Len(Calls(trace[i]))
            /\ settled[i].message =
                  Rejections(trace[i])[Len(Rejections(trace[i]))].message

\* One activation run on its own against the outcomes outs of fn, from
\* attempt a on: where it stands when outs is used up, what it settled with
\* and what it called.
RECURSIVE Alone(_, _, _, _, _, _)
Alone(a, m, d, outs, err, tr) ==
    IF a > m
    THEN [rpc |-> "thrown",
          settled |-> [type |-> "error", name |-> "Error", attempts |-> m,
                       message |-> err],
          trace |-> tr]
    ELSE IF outs = <<>>
    THEN [rpc |-> "awaitFn", settled |-> Undefined, trace |-> Append(tr, [ev |-> "fn"])]
    ELSE IF Head(outs).ev = "resolved"
    THEN [rpc |-> "returned", settled |-> Head(outs).val,
          trace |-> tr \o <<[ev |-> "fn"], Head(outs)>>]
    ELSE Alone(a + 1, m, d, Tail(outs), Head(outs).message,
               tr \o <<[ev |-> "fn"], Head(outs)>>
                  \o (IF a < m THEN <<[ev |-> "delay", ms |-> d]>> ELSE <<>>))

IsPrefix(p, q) == Len(p) <= Len(q) /\ SubSeq(q, 1, Len(p)) = p

\* C10: however the activations in flight interleave at their awaits, each
\* calls fn and delay exactly as it would alone against the same outcomes of
\* its own fn, and settles with the same value or the same error.
C10_ActivationsIndependent ==
    \A i \in Invocations :
        rpc[i] # "idle" =>
            LET alone == Alone(0, maxRetries[i], delayMs[i],
                               Outcomes(trace[i]), "", <<>>)
            IN IF rpc[i] \in {"returned", "thrown"}
               THEN /\ alone.rpc = rpc[i]
                    /\ alone.settled = settled[i]
                    /\ alone.trace = trace[i]
               ELSE /\ alone.rpc = "awaitFn"
                    /\ IsPrefix(trace[i], alone.trace)

\* One activation has run out of attempts while another is still waiting
\* between two of its attempts, its last failure a different one.
C10_Witness ==
    \E i, j \in Invocations :
        /\ i # j
        /\ rpc[i] = "thrown"
        /\ Len(Waits(trace[i])) >= 1
        /\ rpc[j] = "awaitDelay"
        /\ error[j].message # settled[i].message

----------------------------------------------------------------------------
(* Properties of manageToolCall *)

\* The names the spec registers, each with its handler.
RegisteredNames == {"get_youtube_transcript", "calculate"}
RegisteredHandler(n) ==
    IF n = "get_youtube_transcript" THEN Fn("getYoutubeTranscript") ELSE Fn("calculate")

\* A sequence of exactly one record whose functionResponse names the call and
\* whose response has a content field.
IsEnvelopeFor(v, name) ==
    /\ v.type = "array"
    /\ "items" \in DOMAIN v
    /\ Len(v.items) = 1
    /\ DOMAIN v.items[1] = {"functionResponse"}
    /\ v.items[1].functionResponse.name = name
    /\ "content" \in DOMAIN v.items[1].functionResponse.response

\* C1: for every name that is not registered, inherited names included,
\* manageToolCall returns the envelope whose content is "No function found
\* for " + name, and calls no function on the way.
C1_UnregisteredGetsNotFound ==
    (dpc # "idle" /\ toolCall.name \notin RegisteredNames) =>
        /\ dpc = "returned"
        /\ invoked = <<>>
        /\ IsEnvelopeFor(dresult, toolCall.name)
        /\ dresult.items[1].functionResponse.response.content
              = Str("No function found for " \o toolCall.name)

\* C5: for a registered name manageToolCall calls the handler registered under
\* that name, once, with (toolCall.args, toolCall.name), calls nothing else,
\* and returns the very envelope the handler produced.
C5_RegisteredHandlerCalledOnce ==
    (dpc # "idle" /\ toolCall.name \in RegisteredNames) =>
        /\ invoked = <<[func |-> RegisteredHandler(toolCall.name),
                        args |-> toolCall.args,
                        name |-> toolCall.name]>>
        /\ dpc = "returned" =>
              /\ dresult = produced
              /\ IsEnvelopeFor(dresult, toolCall.name)

\* The transcript handler was called and its envelope came back.
C5_Witness ==
    /\ dpc = "returned"
    /\ toolCall.name = "get_youtube_transcript"
    /\ Len(invoked) = 1
    /\ "url" \in DOMAIN dresult.items[1].functionResponse.response

\* C6: whatever manageToolCall returns, for any name, is a sequence of exactly
\* one record whose functionResponse.name is toolCall.name and whose response
\* has a content field.
C6_EveryReturnIsEnvelope ==
    dpc = "returned" => IsEnvelopeFor(dresult, toolCall.name)

\* C7: manageToolCall never lets a failure reach its caller, whatever the name
\* and the args and whatever the fetch or the evaluation does.
C7_NeverPropagates ==
    dpc # "thrown"

----------------------------------------------------------------------------
(* Properties of processFunctionCallsNames *)

Named(tc) == tc.name.type = "string" /\ Len(tc.name.val) > 0
HasArguments(tc) == tc.args.type = "object" /\ Len(tc.args.entries) > 0

\* What the claim says one call with a name contributes.
Contribution(tc) ==
    IF HasArguments(tc)
    THEN FormatName(tc.name.val) \o <<" ", "(">> \o FormatArgs(tc.args) \o <<")">>
    ELSE FormatName(tc.name.val)

\* The contributions of the calls with a name, in order, a ", " between each
\* two of them and nowhere else.
RECURSIVE Contributions(_)
Contributions(calls) ==
    IF calls = <<>> THEN <<>>
    ELSE IF ~Named(Head(calls)) THEN Contributions(Tail(calls))
    ELSE IF \A j \in 2..Len(calls) : ~Named(calls[j]) THEN Contribution(Head(calls))
    ELSE Contribution(Head(calls)) \o <<",", " ">> \o Contributions(Tail(calls))

\* C8: processFunctionCallsNames returns the strings of exactly the calls
\* that have a name, in input order, joined with ", ": the formatted name
\* alone without arguments, "<formatted name> (<args>)" with them, nothing
\* for a call without a name, and the empty string when no call has a name.
C8_SummaryJoinsNamedCalls ==
    fpc = "done" =>
        /\ summary = Contributions(functionCalls)
        /\ (\A j \in 1..Len(functionCalls) : ~Named(functionCalls[j])) => summary = <<>>

\* A call without a name came before a call with a name and arguments.
C8_Witness ==
    /\ fpc = "done"
    /\ Len(functionCalls) >= 2
    /\ ~Named(functionCalls[1])
    /\ Named(functionCalls[2]) /\ HasArguments(functionCalls[2])
    /\ summary # <<>>

\* What the claim says a value renders as.
ClaimedRendering(stringValue) ==
    IF Len(stringValue) > 500
    THEN [p \in 1..503 |-> IF p <= 500 THEN stringValue[p] ELSE "."]
    ELSE stringValue

\* C9: a value whose string rendering is longer than 500 characters shows as
\* its first 500 characters followed by "...", and a value of 500 characters
\* or fewer shows unchanged.
C9_LongValuesTruncated ==
    fpc = "done" =>
        \A j \in 1..Len(functionCalls) :
            LET tc == functionCalls[j]
            IN (Named(tc) /\ HasArguments(tc)) =>
                  perCall[j] =
                      FormatName(tc.name.val) \o <<" ", "(">>
                      \o Join([h \in 1..Len(tc.args.entries) |->
                                  tc.args.entries[h].key \o <<":", " ">>
                                  \o ClaimedRendering(StringOf(tc.args.entries[h].value))],
                              <<",", " ">>)
                      \o <<")">>

\* A value of exactly 500 characters and a longer one were both rendered.
C9_Witness ==
    /\ fpc = "done"
    /\ \E j \in 1..Len(functionCalls) :
          /\ Named(functionCalls[j]) /\ HasArguments(functionCalls[j])
          /\ Len(StringOf(functionCalls[j].args.entries[1].value)) = 500
    /\ \E j \in 1..Len(functionCalls) :
          /\ Named(functionCalls[j]) /\ HasArguments(functionCalls[j])
          /\ Len(StringOf(functionCalls[j].args.entries[1].value)) > 500

====
